---- MODULE Spec2Model ----
(***************************************************************************)
(* A model of wallaby's storage layer (src/wallaby/__init__.py): the       *)
(* Wallaby class over one SQLite database file with its single `results`   *)
(* table.                                                                  *)
(*                                                                         *)
(* A Python str is a sequence of one-character strings, so that            *)
(* concatenation, joining and SQLite's LIKE are computed character by      *)
(* character.  Opaque texts (jobtext, payload values) are TLA+ strings.    *)
(***************************************************************************)
EXTENDS Integers, Sequences, FiniteSets, TLC

\* ------------------------------------------------------------------ bounds
MaxStores == 3          \* Wallaby objects constructed on the database file
MaxLogs == 2            \* log calls that return True, and rows a store sees
MaxTime == 2            \* time.time() and `since` range over 0..MaxTime
MaxTags == 2            \* longest tag list in the tag-matching specification
MaxTagRows == 1         \* rows in the tag-matching specification

Stores == 1..MaxStores
Times == 0..MaxTime
EndTimes == { 0, MaxTime }          \* the earliest and the latest time

\* ------------------------------------------------------------ input domains
NoArg == [kind |-> "none", v |-> <<>>]
StrArg(s) == [kind |-> "str", v |-> s]
ListArg(l) == [kind |-> "list", v |-> l]

NoneText == "<None>"
Argv == "pytest"                    \* " ".join(sys.argv[:])

NotJson == "<set>"                  \* a value json.dumps rejects
StrPayload(s) == [isstr |-> TRUE, s |-> s, items |-> <<>>]
DictPayload(items) == [isstr |-> FALSE, s |-> "", items |-> items]

foo == <<"f", "o", "o">>
bar == <<"b", "a", "r">>
cli == <<"c", "l", "i">>

\* The log calls of the tests and of cli(), and one with a payload that
\* json.dumps rejects.
LogCalls ==
    { [payload |-> StrPayload("This is my result"), tags |-> NoArg, jobtext |-> NoneText],
      [payload |-> DictPayload(<< <<"output", "a.txt">>, <<"command", "ls">> >>),
       tags |-> ListArg(<<cli, foo>>), jobtext |-> "ls"],
      [payload |-> DictPayload(<< <<"favorite_set", NotJson>> >>),
       tags |-> ListArg(<<foo, bar>>), jobtext |-> ""] }

\* Union[List[str], str] = None, as the tests and wallaby2json() pass it.
QueryArgs == { NoArg, StrArg(foo), ListArg(<<foo, cli>>) }

\* The tag strings of the tag-matching specification.  "A" and "_" are
\* ordinary characters to Python, and "," is the delimiter, which log does not
\* reject.  The quote character is left out: get_by_tag splices the tag into
\* the SQL text unescaped.
TagPool == { <<>>, <<"a">>, <<"a", "b">>, <<"A">>, <<"_">>, <<",">> }

RECURSIVE ListsUpTo(_, _)
ListsUpTo(S, n) ==
    IF n = 0 THEN { <<>> }
    ELSE LET shorter == ListsUpTo(S, n - 1)
         IN  shorter \cup { Append(l, x) : l \in { s \in shorter : Len(s) = n - 1 }, x \in S }

\* List[str] = None
TagLists == {NoArg} \cup { ListArg(l) : l \in ListsUpTo(TagPool, MaxTags) }

\* Union[List[str], str] = None
TagArgs == TagLists \cup { StrArg(s) : s \in TagPool }

\* (all_of, any_of): every argument alone, neither, and both of the short ones.
ShortArgs == { StrArg(<<>>), StrArg(<<"a">>), ListArg(<<>>), ListArg(<< <<"a">> >>),
               ListArg(<< <<"a", "b">> >>) }
TagQueries ==
    { <<a, NoArg>> : a \in TagArgs } \cup { <<NoArg, a>> : a \in TagArgs }
        \cup (ShortArgs \X ShortArgs)

\* Statements a caller can hand to raw_query.
RawQueries ==
    { [stmt |-> "select", id |-> 0], [stmt |-> "drop", id |-> 0] }
        \cup { [stmt |-> "delete", id |-> i] : i \in 1..MaxLogs }

\* ------------------------------------------------------------------- state
VARIABLES
    schema,     \* the database file's committed schema: NoTable or ResultsTable
    rows,       \* the committed rows of `results`, in rowid order
    conn,       \* conn[w]: self._conn of store w
    tx,         \* tx[w]: the transaction left open on w's connection, by its lock
    view,       \* view[w]: the uncommitted database of w's pending transaction
    cur,        \* cur[w]: the caller holds an unfetched raw_query cursor of w
    issued,     \* history: the ids of the log calls that returned True
    last        \* the last call: its arguments, what it raised, what it returned

vars == <<schema, rows, conn, tx, view, cur, issued, last>>

NoTable == <<>>
ResultsTable == <<"id", "jobtext", "tagscsv", "date", "results">>

Unconstructed == "unconstructed"    \* no Wallaby object w yet
ConnNone == "None"                  \* self._conn = None
Connected == "connection"           \* a sqlite3.Connection

DELIM == <<",">>

Db(s, rs) == [schema |-> s, rows |-> rs]
NoView == Db(NoTable, <<>>)

NoCall ==
    [op |-> "none", w |-> 0, raised |-> "none", ret |-> <<>>,
     payload |-> StrPayload(""), tags |-> NoArg, jobtext |-> NoneText,
     all_of |-> NoArg, any_of |-> NoArg, since |-> 0,
     query |-> [stmt |-> "select", id |-> 0]]

\* ------------------------------------------------- connection, transactions
Cursor(c) == IF c # ConnNone THEN c ELSE Connected

\* The sqlite3 module opens a transaction before an INSERT or DELETE and
\* _execute commits after every statement; nothing rolls back.  tx[w] is
\*   "none"      autocommit, no transaction open
\*   "open"      BEGIN issued, no lock on the file
\*   "shared"    the transaction has read the file
\*   "reserved"  the transaction holds the write lock, nothing written
\*   "pending"   the transaction has written view[w] and its commit failed
\* The database as store w reads it.
View(w) == IF tx[w] = "pending" THEN view[w] ELSE Db(schema, rows)

Others(w) == Stores \ {w}
HoldsShared(w) == cur[w] \/ tx[w] \in {"shared", "reserved", "pending"}
SharedByOther(w) == \E v \in Others(w) : HoldsShared(v)
ReservedByOther(w) == \E v \in Others(w) : tx[v] \in {"reserved", "pending"}
PendingByOther(w) == \E v \in Others(w) : tx[v] = "pending"
CanShare(w) == HoldsShared(w) \/ ~PendingByOther(w)

Outcome(raised, t, v, db) == [raised |-> raised, tx |-> t, view |-> v, db |-> db]

\* self._conn.commit(): a transaction that has written needs every other
\* connection's read lock gone; when it fails the transaction stays open.
Commit(w, t, v, db) ==
    IF t # "pending" THEN Outcome("none", "none", NoView, db)
    ELSE IF SharedByOther(w) THEN Outcome("OperationalError", "pending", v, db)
    ELSE Outcome("none", "none", NoView, v)

\* A lock taken inside a transaction is kept until the transaction ends.
Kept(t) == IF t = "open" THEN "shared" ELSE t

\* _execute of a SELECT on results.
ExecuteSelect(w) ==
    LET db == Db(schema, rows)
    IN  IF ~CanShare(w) THEN Outcome("OperationalError", tx[w], view[w], db)
        ELSE IF View(w).schema = NoTable
             THEN Outcome("OperationalError", Kept(tx[w]), view[w], db)
        ELSE Commit(w, Kept(tx[w]), view[w], db)

\* _execute of an INSERT or DELETE on results that turns View(w) into
\* `changed`.  `begun` tells whether the statement was prepared, and BEGIN
\* issued, before it failed: that depends on the connection's statement cache
\* and on the schema it has in memory.
ExecuteWrite(w, changed, begun) ==
    LET db == Db(schema, rows)
        opened == IF tx[w] = "none" /\ begun THEN "open" ELSE tx[w]
        locked == IF tx[w] = "pending" THEN "pending"
                  ELSE IF tx[w] = "none" /\ ~begun THEN "none" ELSE "reserved"
    IN  IF ReservedByOther(w) THEN Outcome("OperationalError", opened, view[w], db)
        ELSE IF View(w).schema = NoTable
             THEN Outcome("OperationalError", locked, view[w], db)
        ELSE Commit(w, "pending", changed, db)

\* _execute of DROP TABLE results: no BEGIN precedes it, so outside a
\* transaction the statement commits by itself or not at all.
ExecuteDrop(w) ==
    LET db == Db(schema, rows)
    IN  IF ReservedByOther(w) THEN Outcome("OperationalError", tx[w], view[w], db)
        ELSE IF View(w).schema = NoTable \/ cur[w]
             THEN Outcome("OperationalError", Kept(tx[w]), view[w], db)
        ELSE IF tx[w] # "none" THEN Commit(w, "pending", NoView, db)
        ELSE IF SharedByOther(w) THEN Outcome("OperationalError", "none", NoView, db)
        ELSE Outcome("none", "none", NoView, NoView)

Apply(w, out) ==
    /\ tx' = [tx EXCEPT ![w] = out.tx]
    /\ view' = [view EXCEPT ![w] = out.view]
    /\ schema' = out.db.schema
    /\ rows' = out.db.rows

\* CREATE TABLE IF NOT EXISTS results (id INTEGER PRIMARY KEY, ...)
CreateTableIfNotExists(db) ==
    IF db.schema = NoTable THEN Db(ResultsTable, <<>>) ELSE db

\* -------------------------------------------------------------------- log
RECURSIVE Join(_, _)
Join(l, sep) ==
    IF l = <<>> THEN <<>>
    ELSE IF Len(l) = 1 THEN l[1]
    ELSE l[1] \o sep \o Join(Tail(l), sep)

Truthy(a) == a.kind # "none" /\ a.v # <<>>

TagsCsv(tags) == DELIM \o (IF Truthy(tags) THEN Join(tags.v, DELIM) ELSE <<>>) \o DELIM

JobText(jobtext) == IF jobtext # NoneText /\ jobtext # "" THEN jobtext ELSE Argv

Document(payload) ==
    IF payload.isstr THEN << <<"output", payload.s>> >> ELSE payload.items

Serializable(doc) == \A i \in 1..Len(doc) : doc[i][2] # NotJson

JsonDumps(doc) == [json |-> doc]

RECURSIVE MaxId(_)
MaxId(rs) ==
    IF rs = <<>> THEN 0
    ELSE LET m == MaxId(Tail(rs)) IN IF Head(rs).id > m THEN Head(rs).id ELSE m

\* id INTEGER PRIMARY KEY: an omitted id becomes the largest rowid plus one.
NewRowId(rs) == MaxId(rs) + 1

\* Variant: INSERT OR REPLACE under the id of the newest row.
InsertOrReplace(rs, jobtext, tagscsv, date, results) ==
    LET row == [id |-> IF rs = <<>> THEN 1 ELSE rs[Len(rs)].id, jobtext |-> jobtext,
                tagscsv |-> tagscsv, date |-> date, results |-> results]
    IN  IF rs = <<>> THEN <<row>> ELSE [rs EXCEPT ![Len(rs)] = row]

\* INSERT INTO results(jobtext, tagscsv, date, results) VALUES(?, ?, ?, ?)
Insert(rs, jobtext, tagscsv, date, results) ==
    Append(rs, [id |-> NewRowId(rs), jobtext |-> jobtext, tagscsv |-> tagscsv,
                date |-> date, results |-> results])

Log(w, payload, tags, jobtext, t, begun) ==
    /\ conn[w] # Unconstructed
    /\ Len(issued) < MaxLogs
    /\ Len(View(w).rows) < MaxLogs
    /\ LET call == [NoCall EXCEPT !.op = "log", !.w = w, !.payload = payload,
                                  !.tags = tags, !.jobtext = jobtext]
           doc == Document(payload)
           changed == Db(View(w).schema, Insert(View(w).rows, JobText(jobtext),
                                                TagsCsv(tags), t, JsonDumps(doc)))
           out == ExecuteWrite(w, changed, begun)
       IN  IF ~Serializable(doc)
           THEN /\ last' = [call EXCEPT !.raised = "TypeError"]
                /\ UNCHANGED <<schema, rows, conn, tx, view, issued>>
           ELSE /\ conn' = [conn EXCEPT ![w] = Cursor(conn[w])]
                /\ Apply(w, out)
                /\ issued' = IF out.raised = "none"
                             THEN Append(issued, NewRowId(View(w).rows)) ELSE issued
                /\ last' = [call EXCEPT !.raised = out.raised]
    /\ UNCHANGED cur

\* ------------------------------------------------------------- construction
\* Variant: an _initialize that creates nothing.
InitializeSkipped(db) == db

Initialize(db) == CreateTableIfNotExists(db)

ExecuteCreate(w) ==
    LET db == Db(schema, rows)
    IN  IF PendingByOther(w) \/ (schema = NoTable /\ SharedByOther(w))
        THEN Outcome("OperationalError", "none", NoView, db)
        ELSE Outcome("none", "none", NoView, Initialize(db))

\* __init__: binds the path, sets _conn = None and calls _initialize, whose
\* _execute opens the connection and runs CREATE TABLE IF NOT EXISTS.  When
\* _initialize raises, __init__ raises and there is no object.
WallabyInit(w) ==
    /\ conn[w] = Unconstructed
    /\ LET out == ExecuteCreate(w)
       IN  /\ conn' = [conn EXCEPT ![w] = IF out.raised = "none" THEN Cursor(ConnNone)
                                          ELSE Unconstructed]
           /\ Apply(w, out)
           /\ last' = [NoCall EXCEPT !.op = "init", !.w = w, !.raised = out.raised]
    /\ UNCHANGED <<cur, issued>>

\* --------------------------------------------------------------- get_by_tag
\* ASCII case folding, over the characters the input domains use.
Lower(c) == IF c = "A" THEN "a" ELSE c

\* SQLite's LIKE: % matches any run of characters, _ any one character, and
\* every other character matches itself without regard to ASCII case.
RECURSIVE Like(_, _)
Like(pat, str) ==
    IF pat = <<>> THEN str = <<>>
    ELSE IF Head(pat) = "%"
         THEN Like(Tail(pat), str) \/ (str # <<>> /\ Like(pat, Tail(str)))
         ELSE /\ str # <<>>
              /\ Head(pat) = "_" \/ Lower(Head(pat)) = Lower(Head(str))
              /\ Like(Tail(pat), Tail(str))

\* tagscsv LIKE '%,{t},%'
TagClause(t, tagscsv) == Like(<<"%", ",">> \o t \o <<",", "%">>, tagscsv)

SetOperation(all_of, any_of) ==
    IF Truthy(all_of) THEN "AND" ELSE IF Truthy(any_of) THEN "OR" ELSE "ValueError"

TagList(all_of, any_of) ==
    LET taglist == IF Truthy(all_of) THEN all_of ELSE any_of
    IN  IF taglist.kind = "str" THEN << taglist.v >> ELSE taglist.v

Where(op, taglist, tagscsv) ==
    IF op = "AND"
    THEN \A i \in 1..Len(taglist) : TagClause(taglist[i], tagscsv)
    ELSE \E i \in 1..Len(taglist) : TagClause(taglist[i], tagscsv)

\* What get_by_tag raises and returns on the database db.
GetByTagOutcome(db, all_of, any_of) ==
    LET op == SetOperation(all_of, any_of)
        taglist == TagList(all_of, any_of)
        Test(r) == Where(op, taglist, r.tagscsv)
    IN  IF op = "ValueError" THEN [raised |-> "ValueError", ret |-> <<>>]
        ELSE IF db.schema = NoTable THEN [raised |-> "OperationalError", ret |-> <<>>]
        ELSE [raised |-> "none", ret |-> SelectSeq(db.rows, Test)]

GetByTag(w, all_of, any_of) ==
    /\ conn[w] # Unconstructed
    /\ LET call == [NoCall EXCEPT !.op = "get_by_tag", !.w = w, !.all_of = all_of,
                                  !.any_of = any_of]
           read == GetByTagOutcome(View(w), all_of, any_of)
           out == ExecuteSelect(w)
       IN  IF read.raised = "ValueError"
           THEN /\ last' = [call EXCEPT !.raised = "ValueError"]
                /\ UNCHANGED <<schema, rows, conn, tx, view>>
           ELSE /\ conn' = [conn EXCEPT ![w] = Cursor(conn[w])]
                /\ Apply(w, out)
                /\ last' = [call EXCEPT !.raised = out.raised,
                                        !.ret = IF out.raised = "none" THEN read.ret
                                                ELSE <<>>]
    /\ UNCHANGED <<cur, issued>>

\* -------------------------------------------------------- get_results_since
\* Variant: WHERE date >= (?)
SinceInclusive(date, since) == date >= since

\* SELECT * FROM results WHERE date > (?)
Since(date, since) == date > since

GetResultsSince(w, since) ==
    /\ conn[w] # Unconstructed
    /\ LET Test(r) == Since(r.date, since)
           out == ExecuteSelect(w)
       IN  /\ Apply(w, out)
           /\ last' = [NoCall EXCEPT !.op = "get_results_since", !.w = w,
                                     !.since = since, !.raised = out.raised,
                                     !.ret = IF out.raised = "none"
                                             THEN SelectSeq(View(w).rows, Test) ELSE <<>>]
    /\ conn' = [conn EXCEPT ![w] = Cursor(conn[w])]
    /\ UNCHANGED <<cur, issued>>

\* ---------------------------------------------------------------- raw_query
\* The statement runs as given and is committed, and the cursor goes back to
\* the caller unfetched: SELECT * FROM results, DELETE FROM results WHERE
\* id = ?, DROP TABLE results.
RawRows(rs, query) ==
    LET Keep(r) == r.id # query.id
    IN  IF query.stmt = "delete" THEN SelectSeq(rs, Keep) ELSE rs

RawQuery(w, query, begun) ==
    /\ conn[w] # Unconstructed
    /\ conn' = [conn EXCEPT ![w] = Cursor(conn[w])]
    /\ LET changed == Db(View(w).schema, RawRows(View(w).rows, query))
           out == IF query.stmt = "select" THEN ExecuteSelect(w)
                  ELSE IF query.stmt = "drop" THEN ExecuteDrop(w)
                  ELSE ExecuteWrite(w, changed, begun)
           ret == IF query.stmt = "select" /\ out.raised = "none" THEN View(w).rows
                  ELSE <<>>
       IN  /\ Apply(w, out)
           /\ cur' = [cur EXCEPT ![w] = cur[w] \/ ret # <<>>]
           /\ last' = [NoCall EXCEPT !.op = "raw_query", !.w = w, !.query = query,
                                     !.raised = out.raised, !.ret = ret]
    /\ UNCHANGED issued

\* The caller fetches the rows of the cursor raw_query gave it: the statement
\* ends, and its read lock goes unless a transaction is open to keep it.
Fetch(w) ==
    /\ cur[w]
    /\ cur' = [cur EXCEPT ![w] = FALSE]
    /\ tx' = [tx EXCEPT ![w] = Kept(tx[w])]
    /\ last' = [NoCall EXCEPT !.op = "fetch", !.w = w]
    /\ UNCHANGED <<schema, rows, conn, view, issued>>

\* ------------------------------------------------------------ specification
Init ==
    /\ schema = NoTable
    /\ rows = <<>>
    /\ conn = [w \in Stores |-> Unconstructed]
    /\ tx = [w \in Stores |-> "none"]
    /\ view = [w \in Stores |-> NoView]
    /\ cur = [w \in Stores |-> FALSE]
    /\ issued = <<>>
    /\ last = NoCall

\* Wallaby objects are numbered in the order they are constructed.
NextStore(w) == \A v \in Stores : v < w => conn[v] # Unconstructed

\* Every operation, on every store of one database file.
Next ==
    \/ \E w \in Stores : NextStore(w) /\ WallabyInit(w)
    \/ \E w \in Stores, begun \in BOOLEAN :
          Log(w, StrPayload("This is my result"), NoArg, NoneText, MaxTime, begun)
    \/ \E w \in Stores : GetByTag(w, ListArg(<<foo>>), NoArg)
    \/ \E w \in Stores : GetResultsSince(w, 0)
    \/ \E w \in Stores, query \in RawQueries, begun \in BOOLEAN : RawQuery(w, query, begun)
    \/ \E w \in Stores : Fetch(w)

Spec == Init /\ [][Next]_vars

\* The calls specification: log, get_by_tag and get_results_since only, on
\* every store.
NextCalls ==
    \/ \E w \in Stores : NextStore(w) /\ WallabyInit(w)
    \/ \E w \in Stores, c \in LogCalls, t \in EndTimes, begun \in BOOLEAN :
          Log(w, c.payload, c.tags, c.jobtext, t, begun)
    \/ \E w \in Stores, all_of \in QueryArgs, any_of \in QueryArgs :
          GetByTag(w, all_of, any_of)
    \/ \E w \in Stores, since \in EndTimes : GetResultsSince(w, since)

SpecCalls == Init /\ [][NextCalls]_vars

\* The time specification: one store, rows logged at every time, queried with
\* every `since`.
NextSince ==
    \/ WallabyInit(1)
    \/ \E c \in LogCalls, t \in Times : Log(1, c.payload, c.tags, c.jobtext, t, TRUE)
    \/ \E since \in Times : GetResultsSince(1, since)

SpecSince == Init /\ [][NextSince]_vars

\* The tag-matching specification: one store, rows logged with every tag list
\* over TagPool, queried with TagQueries.
NextTags ==
    \/ WallabyInit(1)
    \/ \E tags \in TagLists :
          /\ Len(rows) < MaxTagRows
          /\ Log(1, StrPayload("This is my result"), tags, NoneText, 0, TRUE)
    \/ \E q \in TagQueries : GetByTag(1, q[1], q[2])

SpecTags == Init /\ [][NextTags]_vars

\* ------------------------------------------------------------------ claims
Range(seq) == { seq[i] : i \in 1..Len(seq) }

Contains(str, sub) ==
    \E i \in 0..(Len(str) - Len(sub)) : SubSeq(str, i + 1, i + Len(sub)) = sub

RECURSIVE Delimited(_)
Delimited(l) == IF l = <<>> THEN <<>> ELSE Head(l) \o DELIM \o Delimited(Tail(l))

Populated(r) ==
    /\ r.id >= 1
    /\ r.jobtext # NoneText
    /\ Len(r.tagscsv) >= 2
    /\ r.date \in Times
    /\ \A i \in 1..Len(r.results.json) : r.results.json[i][2] # NotJson

\* Store w is connected and the table is there for it.
Ready(w) == conn[w] = Connected /\ View(w).schema = ResultsTable

\* C1: every log call that returns True adds exactly one record, whose id is
\* unique in the table and strictly greater than the id of every record
\* logged before it.
C1_LogAddsOneRecordWithGreatestId ==
    [][(last'.op = "log" /\ last'.raised = "none") =>
         /\ Len(rows') = Len(rows) + 1
         /\ \A i \in 1..Len(rows) : rows'[i] = rows[i] /\ rows[i].id # rows'[Len(rows')].id
         /\ \A i \in 1..Len(issued) : issued[i] < rows'[Len(rows')].id]_vars

\* C2: a query tag t matches a record if and only if the record's tag string
\* contains DELIM + t + DELIM, character for character.
C2_TagMatchIsExactSubstring ==
    (/\ last.op = "get_by_tag"
     /\ last.raised = "none"
     /\ last.all_of.kind = "list"
     /\ Len(last.all_of.v) = 1) =>
        \A i \in 1..Len(rows) :
            rows[i] \in Range(last.ret)
                <=> Contains(rows[i].tagscsv, DELIM \o last.all_of.v[1] \o DELIM)

\* C3: for every list L, all_of=L returns exactly the records that match every
\* tag of L and any_of=L exactly those that match at least one; a bare string
\* s gives what the one-element list [s] gives.
C3_AllOfIsAndAnyOfIsOr ==
    LET AllMatch(r) == \A i \in 1..Len(last.all_of.v) :
                           TagClause(last.all_of.v[i], r.tagscsv)
        AnyMatch(r) == \E i \in 1..Len(last.any_of.v) :
                           TagClause(last.any_of.v[i], r.tagscsv)
        db == Db(schema, rows)
    IN  /\ (last.op = "get_by_tag" /\ last.all_of.kind = "list" /\ last.any_of = NoArg) =>
              (last.raised = "none" /\ last.ret = SelectSeq(rows, AllMatch))
        /\ (last.op = "get_by_tag" /\ last.any_of.kind = "list" /\ last.all_of = NoArg) =>
              (last.raised = "none" /\ last.ret = SelectSeq(rows, AnyMatch))
        /\ (last.op = "get_by_tag" /\ last.all_of.kind = "str" /\ last.any_of = NoArg) =>
              LET one == GetByTagOutcome(db, ListArg(<<last.all_of.v>>), NoArg)
              IN  last.raised = one.raised /\ last.ret = one.ret
        /\ (last.op = "get_by_tag" /\ last.any_of.kind = "str" /\ last.all_of = NoArg) =>
              LET one == GetByTagOutcome(db, NoArg, ListArg(<<last.any_of.v>>))
              IN  last.raised = one.raised /\ last.ret = one.ret

\* C4: a get_by_tag call that supplies neither all_of nor any_of, and one that
\* supplies both, ends in ValueError.
C4_ExactlyOneOfAllOfAnyOf ==
    (/\ last.op = "get_by_tag"
     /\ (last.all_of = NoArg) <=> (last.any_of = NoArg)) => last.raised = "ValueError"

\* C5: get_results_since(s) returns exactly the records whose date is strictly
\* greater than s: none dated s or earlier, every one dated later, each once.
C5_ResultsSinceIsStrictlyLater ==
    (last.op = "get_results_since" /\ schema # NoTable) =>
        /\ last.raised = "none"
        /\ \A i \in 1..Len(rows) :
              /\ rows[i].date = last.since => rows[i] \notin Range(last.ret)
              /\ rows[i].date > last.since => rows[i] \in Range(last.ret)
              /\ rows[i].date < last.since => rows[i] \notin Range(last.ret)
        /\ Range(last.ret) \subseteq Range(rows)
        /\ Len(last.ret) = Cardinality(Range(last.ret))

C5_Witness ==
    /\ last.op = "get_results_since"
    /\ last.since = 1
    /\ \E i \in 1..Len(rows) : rows[i].date = last.since
    /\ \E i \in 1..Len(rows) : rows[i].date > last.since
    /\ Len(last.ret) = 1

\* C6: across log, get_by_tag and get_results_since calls no record that is in
\* the table is changed or removed; the two queries leave the table as it is
\* and log adds at most its one new record.
C6_RecordsAreImmutable ==
    [][last'.op \in {"log", "get_by_tag", "get_results_since"} =>
         /\ schema' = schema
         /\ Len(rows') >= Len(rows)
         /\ \A i \in 1..Len(rows) : rows'[i] = rows[i]
         /\ last'.op # "log" => rows' = rows
         /\ last'.op = "log" => Len(rows') <= Len(rows) + 1]_vars

C6_Witness ==
    /\ last.op = "get_by_tag"
    /\ last.raised = "none"
    /\ Len(last.ret) = 1
    /\ Len(rows) = 2
    /\ rows[1].date # rows[2].date

\* C7: a log call that raises leaves the table as it was, so the table gains
\* a row only in a log call that returns True, and every row of the table has
\* all of its columns populated.
C7_FailedLogLeavesTableUnchanged ==
    [][/\ (last'.op = "log" /\ last'.raised # "none") => (rows' = rows /\ schema' = schema)
       /\ Len(rows') > Len(rows) => (last'.op = "log" /\ last'.raised = "none")
       /\ \A i \in 1..Len(rows') : Populated(rows'[i])]_vars

\* C8: constructing a store on a database that already holds the table
\* raises nothing and leaves the schema and every row as they were, and the
\* next query through the new store returns the rows logged before it.
C8_ProvisioningIsIdempotent ==
    [][/\ (last'.op = "init" /\ schema = ResultsTable) =>
            (last'.raised = "none" /\ schema' = schema /\ rows' = rows)
       /\ (last.op = "init" /\ last.raised = "none" /\ last'.op = "get_results_since"
              /\ last'.w = last.w /\ schema = ResultsTable) =>
            /\ last'.raised = "none"
            /\ \A i \in 1..Len(rows) :
                  rows[i].date > last'.since => rows[i] \in Range(last'.ret)]_vars

\* C9: the tag string log stores for [t1, ..., tn] is DELIM + t1 + DELIM + ...
\* + tn + DELIM (DELIM + DELIM for an empty or omitted list); it begins and
\* ends with the delimiter and no stored tag contains the delimiter.
C9_TagStringIsDelimiterFramed ==
    (last.op = "log" /\ last.raised = "none") =>
        LET tagscsv == rows[Len(rows)].tagscsv
            tags == last.tags.v
        IN  /\ tagscsv = IF tags = <<>> THEN DELIM \o DELIM ELSE DELIM \o Delimited(tags)
            /\ Head(tagscsv) = "," /\ tagscsv[Len(tagscsv)] = ","
            /\ \A i \in 1..Len(tags) : "," \notin Range(tags[i])

====
